---- MODULE Spec2Model ----
(***************************************************************************)
(* Model of the WebsiteStack constructor (src/lib/website-stack.ts) and of *)
(* the CDK app that instantiates it twice (src/bin/cdk.ts).                *)
(*                                                                         *)
(* An optional JavaScript value is a sequence of length at most one:       *)
(* << >> is undefined (or "not assigned yet"), <<v>> is the value v.       *)
(* Strings are TLA+ strings; template literals and "+" are \o.             *)
(***************************************************************************)
EXTENDS Integers, Sequences, FiniteSets, TLC

VARIABLES environ, program, cur, pc, stacks, thrown, reported, calls

vars == <<environ, program, cur, pc, stacks, thrown, reported, calls>>

----------------------------------------------------------------------------
(* Bounds and input sets *)

\* number of `new WebsiteStack(...)` statements of an app under Spec
NStacks == 2

Undefined == << >>

DomainNames == {"", "example.com"}

SubDomains == {Undefined, <<"">>, <<"dev">>, <<"www">>}

Accounts == {Undefined, <<"111111111111">>}

\* causes with which a construct of the SDK may throw
Causes == {"AccessDenied", "NameConflict"}

StackIds == <<"WebsiteStack-A", "WebsiteStack-B", "WebsiteStack-C", "WebsiteStack-D">>

----------------------------------------------------------------------------
(* JavaScript helpers *)

\* `${v}` of an optional string
TemplateString(v) == IF v = Undefined THEN "undefined" ELSE v[1]

\* v || ""
OrEmpty(v) == IF v = Undefined \/ v = <<"">> THEN "" ELSE v[1]

\* [...xs].includes(x)
Range(s) == {s[i] : i \in 1..Len(s)}

----------------------------------------------------------------------------
(* WebsiteStackProps *)

\* the props of Spec: any domain name, either variant, any subdomain value
\* (a JavaScript caller may pass one to either variant, or omit it)
WebsiteStackProps ==
  [domainName : DomainNames, isProd : BOOLEAN, siteSubDomain : SubDomains,
   account : {Undefined}]

\* const siteSubDomain = props.isProd ? "www" : props.siteSubDomain;
EffectiveSubDomain_IgnoresIsProd(props) == props.siteSubDomain

EffectiveSubDomain(props) ==
  IF props.isProd THEN <<"www">> ELSE props.siteSubDomain

\* const siteDomain = `${siteSubDomain}.${props.domainName}`;
SiteDomainOf_NoSubDomain(siteSubDomain, props) == props.domainName

SiteDomainOf(siteSubDomain, props) ==
  TemplateString(siteSubDomain) \o "." \o props.domainName

\* HostedZone.fromLookup(this, "Zone", { domainName: props.domainName })
ZoneProps(props) == [zoneName |-> props.domainName]

\* new cloudfront.OriginAccessIdentity(this, "cloudfront-OAI", {...})
OAIProps(siteDomain) == [comment |-> "OAI for " \o siteDomain]

\* new s3.Bucket(this, "SiteBucket", {...})
BucketProps_ApexName(siteDomain, props) ==
  [bucketName |-> props.domainName, publicReadAccess |-> FALSE,
   blockPublicAccess |-> "BLOCK_ALL", removalPolicy |-> "RETAIN"]

BucketProps(siteDomain, props) ==
  [bucketName |-> siteDomain, publicReadAccess |-> FALSE,
   blockPublicAccess |-> "BLOCK_ALL", removalPolicy |-> "RETAIN"]

\* new iam.PolicyStatement({...}) granted to the OAI's canonical user
PolicyStatement(bucket, oai) ==
  [actions |-> <<"s3:GetObject">>,
   resources |-> <<"arn:aws:s3:::" \o bucket.bucketName \o "/*">>,
   principals |-> <<oai>>]

\* new acm.Certificate(this, "SiteCertificate", {...})
CertificateProps_NoSAN(siteDomain, zone, props) ==
  [domainName |-> siteDomain, validation |-> zone,
   subjectAlternativeNames |-> << >>]

CertificateProps(siteDomain, zone, props) ==
  [domainName |-> siteDomain, validation |-> zone,
   subjectAlternativeNames |->
     IF props.isProd THEN <<props.domainName>> ELSE << >>]

\* domainNames: [siteDomain, ...(props.isProd ? [props.domainName] : [])]
DistributionDomainNames_AlwaysApex(siteDomain, props) ==
  <<siteDomain, props.domainName>>

DistributionDomainNames(siteDomain, props) ==
  <<siteDomain>> \o (IF props.isProd THEN <<props.domainName>> ELSE << >>)

\* errorResponses of the distribution
ErrorResponses ==
  <<[httpStatus |-> 404, ttl |-> 0, responseHttpStatus |-> 200,
     responsePagePath |-> "/index.html"],
    [httpStatus |-> 403, ttl |-> 0, responseHttpStatus |-> 200,
     responsePagePath |-> "/index.html"]>>

\* new cloudfront.Distribution(this, "SiteDistribution", {...})
DistributionProps(id, siteDomain, certificate, bucket, oai, props) ==
  [certificate |-> certificate,
   domainNames |-> DistributionDomainNames(siteDomain, props),
   defaultRootObject |-> "index.html",
   origin |-> [bucket |-> bucket, originAccessIdentity |-> oai],
   viewerProtocolPolicy |-> "REDIRECT_TO_HTTPS",
   errorResponses |-> ErrorResponses,
   distributionDomainName |-> "${Token[" \o id \o ".SiteDistribution.DomainName]}"]

\* new route53.ARecord(this, "SiteAliasRecord", {zone, recordName, target})
AliasRecordProps(siteDomain, zone, distribution) ==
  [id |-> "SiteAliasRecord", zone |-> zone, recordName |-> <<siteDomain>>,
   target |-> distribution.distributionDomainName]

\* new route53.ARecord(this, "SiteAliasRecordApex", {zone, target})
AliasRecordApexProps(zone, distribution) ==
  [id |-> "SiteAliasRecordApex", zone |-> zone, recordName |-> Undefined,
   target |-> distribution.distributionDomainName]

\* the name a record is created for: recordName, or the zone apex without it
RecordNameOf(r) ==
  IF r.recordName = Undefined THEN r.zone.zoneName ELSE r.recordName[1]

\* the three CfnOutput values
OutputValues(siteDomain, bucket, distribution) ==
  <<[id |-> "Site", value |-> "https://" \o siteDomain],
    [id |-> "Bucket", value |-> bucket.bucketName],
    [id |-> "DistributionDomainName",
     value |-> distribution.distributionDomainName]>>

----------------------------------------------------------------------------
(* State *)

\* a stack before its constructor has run
NoStack ==
  [constructed |-> FALSE, id |-> "", region |-> Undefined,
   account |-> Undefined,
   siteSubDomain |-> Undefined, siteDomain |-> Undefined,
   zone |-> Undefined, cloudfrontOAI |-> Undefined,
   siteBucket |-> Undefined, bucketPolicy |-> << >>,
   certificate |-> Undefined, siteDistribution |-> Undefined,
   records |-> << >>, outputs |-> << >>]

\* one `new WebsiteStack(app, id, props)` statement
Statement(id, props) == [id |-> id, props |-> props]

\* the apps of Spec: NStacks statements with arbitrary props
Programs ==
  {[i \in 1..NStacks |-> Statement(StackIds[i], p[i])] :
     p \in [1..NStacks -> WebsiteStackProps]}

\* the app of src/bin/cdk.ts
BinProgram(env) ==
  <<Statement("WebsiteStack-Prod",
              [domainName |-> OrEmpty(env.DOMAIN_NAME), isProd |-> TRUE,
               siteSubDomain |-> Undefined, account |-> env.CDK_ACCOUNT]),
    Statement("WebsiteStack-Dev",
              [domainName |-> OrEmpty(env.DOMAIN_NAME), isProd |-> FALSE,
               siteSubDomain |-> <<"dev">>, account |-> env.CDK_ACCOUNT])>>

Environments ==
  [DOMAIN_NAME : {Undefined, <<"">>, <<"example.com">>, <<"example.org">>},
   CDK_ACCOUNT : Accounts]

InitCommon ==
  /\ cur = 1
  /\ pc = "super"
  /\ stacks = [i \in 1..Len(program) |-> NoStack]
  /\ thrown = Undefined
  /\ reported = Undefined
  /\ calls = << >>

Init ==
  /\ environ = [DOMAIN_NAME |-> Undefined, CDK_ACCOUNT |-> Undefined]
  /\ program \in Programs
  /\ InitCommon

InitBin ==
  /\ environ \in Environments
  /\ program = BinProgram(environ)
  /\ InitCommon

props == program[cur].props
this == stacks[cur]
Running == cur <= Len(program) /\ pc # "aborted"

----------------------------------------------------------------------------
(* The constructor, statement by statement *)

\* an exception of a construct: nothing in the constructor or in the app
\* catches it, so the process ends with it
\* (variant: the failing statement is caught and tried again)
Raise_Retry(construct, cause) ==
  /\ thrown' = <<[stack |-> program[cur].id, construct |-> construct,
                  cause |-> cause]>>
  /\ reported' = thrown'
  /\ calls' = Append(calls, <<cur, construct>>)
  /\ UNCHANGED <<environ, program, cur, pc, stacks>>

Raise(construct, cause) ==
  /\ thrown' = <<[stack |-> program[cur].id, construct |-> construct,
                  cause |-> cause]>>
  /\ reported' = thrown'
  /\ pc' = "aborted"
  /\ calls' = Append(calls, <<cur, construct>>)
  /\ UNCHANGED <<environ, program, cur, stacks>>

\* a construct created: the statement's effect on `this` and the next one
Created(construct, stack, next) ==
  /\ stacks' = [stacks EXCEPT ![cur] = stack]
  /\ pc' = next
  /\ calls' = Append(calls, <<cur, construct>>)
  /\ UNCHANGED <<environ, program, cur, thrown, reported>>

\* super(scope, id, {...props, env: {account, region: "us-east-1"}})
Super ==
  /\ Running /\ pc = "super"
  /\ stacks' = [stacks EXCEPT ![cur] =
                  [NoStack EXCEPT !.constructed = TRUE,
                                  !.id = program[cur].id,
                                  !.account = props.account,
                                  !.region = <<"us-east-1">>]]
  /\ pc' = "resolve"
  /\ UNCHANGED <<environ, program, cur, thrown, reported, calls>>

\* variant of lines 88-89 that names the site after the stack's id
ResolveSiteDomain_UsesStackId ==
  /\ Running /\ pc = "resolve"
  /\ stacks' = [stacks EXCEPT ![cur] =
       [this EXCEPT !.siteSubDomain = EffectiveSubDomain(props),
                    !.siteDomain = <<this.id \o "." \o props.domainName>>]]
  /\ pc' = "zone"
  /\ UNCHANGED <<environ, program, cur, thrown, reported, calls>>

\* lines 88-89
ResolveSiteDomain ==
  /\ Running /\ pc = "resolve"
  /\ LET siteSubDomain == EffectiveSubDomain(props)
         siteDomain == SiteDomainOf(siteSubDomain, props)
     IN stacks' = [stacks EXCEPT ![cur] =
                     [this EXCEPT !.siteSubDomain = siteSubDomain,
                                  !.siteDomain = <<siteDomain>>]]
  /\ pc' = "zone"
  /\ UNCHANGED <<environ, program, cur, thrown, reported, calls>>

ZoneLookup ==
  /\ Running /\ pc = "zone"
  /\ \/ Created("Zone", [this EXCEPT !.zone = <<ZoneProps(props)>>], "oai")
     \/ \E c \in Causes : Raise("Zone", c)

CreateOAI ==
  /\ Running /\ pc = "oai"
  /\ \/ Created("cloudfront-OAI",
                [this EXCEPT !.cloudfrontOAI = <<OAIProps(this.siteDomain[1])>>],
                "bucket")
     \/ \E c \in Causes : Raise("cloudfront-OAI", c)

CreateBucket ==
  /\ Running /\ pc = "bucket"
  /\ \/ Created("SiteBucket",
                [this EXCEPT !.siteBucket =
                               <<BucketProps(this.siteDomain[1], props)>>],
                "policy")
     \/ \E c \in Causes : Raise("SiteBucket", c)

AddToResourcePolicy ==
  /\ Running /\ pc = "policy"
  /\ \/ Created("SiteBucket/Policy",
                [this EXCEPT !.bucketPolicy =
                   Append(@, PolicyStatement(this.siteBucket[1],
                                             this.cloudfrontOAI[1]))],
                "certificate")
     \/ \E c \in Causes : Raise("SiteBucket/Policy", c)

RequestCertificate ==
  /\ Running /\ pc = "certificate"
  /\ \/ Created("SiteCertificate",
                [this EXCEPT !.certificate =
                   <<CertificateProps(this.siteDomain[1], this.zone[1], props)>>],
                "distribution")
     \/ \E c \in Causes : Raise("SiteCertificate", c)

CreateDistribution ==
  /\ Running /\ pc = "distribution"
  /\ \/ Created("SiteDistribution",
                [this EXCEPT !.siteDistribution =
                   <<DistributionProps(this.id, this.siteDomain[1],
                                       this.certificate[1], this.siteBucket[1],
                                       this.cloudfrontOAI[1], props)>>],
                "record")
     \/ \E c \in Causes : Raise("SiteDistribution", c)

\* variant of lines 173-179 placed before the distribution, whose field
\* this.siteDistribution is still unassigned
CreateAliasRecord_BeforeDistribution ==
  /\ Running /\ pc = "distribution" /\ this.records = << >>
  /\ Created("SiteAliasRecord",
             [this EXCEPT !.records =
                Append(@, [id |-> "SiteAliasRecord", zone |-> this.zone[1],
                           recordName |-> this.siteDomain,
                           target |-> "undefined"])],
             "distribution")

\* lines 173-179
CreateAliasRecord ==
  /\ Running /\ pc = "record"
  /\ \/ Created("SiteAliasRecord",
                [this EXCEPT !.records =
                   Append(@, AliasRecordProps(this.siteDomain[1], this.zone[1],
                                              this.siteDistribution[1]))],
                "apex")
     \/ \E c \in Causes : Raise("SiteAliasRecord", c)

\* lines 183-190: if (props.isProd) { new route53.ARecord(...) }
CreateAliasRecordApex ==
  /\ Running /\ pc = "apex"
  /\ \/ /\ props.isProd
        /\ \/ Created("SiteAliasRecordApex",
                      [this EXCEPT !.records =
                         Append(@, AliasRecordApexProps(this.zone[1],
                                                   this.siteDistribution[1]))],
                      "outputs")
           \/ \E c \in Causes : Raise("SiteAliasRecordApex", c)
     \/ /\ ~props.isProd
        /\ pc' = "outputs"
        /\ UNCHANGED <<environ, program, cur, stacks, thrown, reported, calls>>

\* lines 193-198: the three CfnOutput statements, which cannot throw (their
\* ids are distinct and their values are defined); the constructor returns
\* and the app goes on to its next statement
Outputs ==
  /\ Running /\ pc = "outputs"
  /\ stacks' = [stacks EXCEPT ![cur] =
       [this EXCEPT !.outputs =
          OutputValues(this.siteDomain[1], this.siteBucket[1],
                       this.siteDistribution[1])]]
  /\ calls' = calls \o <<<<cur, "Site">>, <<cur, "Bucket">>,
                         <<cur, "DistributionDomainName">>>>
  /\ cur' = cur + 1
  /\ pc' = "super"
  /\ UNCHANGED <<environ, program, thrown, reported>>

Next == Super \/ ResolveSiteDomain \/ ZoneLookup \/ CreateOAI \/ CreateBucket
          \/ AddToResourcePolicy \/ RequestCertificate \/ CreateDistribution
          \/ CreateAliasRecord \/ CreateAliasRecordApex \/ Outputs

Spec == Init /\ [][Next]_vars

SpecBin == InitBin /\ [][Next]_vars

----------------------------------------------------------------------------
(* Vocabulary of the properties *)

Stacks == DOMAIN stacks
PropsOf(i) == program[i].props

\* the constructor of stack i ran to its end
Complete(i) == stacks[i].outputs # << >>

\* primary domain plus subject alternative names of a certificate
CertificateDomains(cert) ==
  {cert.domainName} \cup Range(cert.subjectAlternativeNames)

RecordNames(i) == {RecordNameOf(stacks[i].records[k]) :
                     k \in 1..Len(stacks[i].records)}

\* a non-production config that satisfies the SiteConfig invariant
ValidNonProd(p) == ~p.isProd /\ p.siteSubDomain \notin {Undefined, <<"">>}

\* a non-production config that breaks it
InvalidNonProd(p) == ~p.isProd /\ p.siteSubDomain \in {Undefined, <<"">>}

----------------------------------------------------------------------------
\* C1: for every production config, whatever subdomain value is supplied
\* with it, the effective subdomain is "www" and siteDomain is
\* "www." + domainName.
C1_ProdUsesWww ==
  \A i \in Stacks :
    (PropsOf(i).isProd /\ stacks[i].siteDomain # Undefined) =>
      /\ stacks[i].siteSubDomain = <<"www">>
      /\ stacks[i].siteDomain = <<"www." \o PropsOf(i).domainName>>

C1_Witness ==
  \E i \in Stacks :
    /\ PropsOf(i).isProd
    /\ PropsOf(i).siteSubDomain = <<"dev">>
    /\ PropsOf(i).domainName = "example.com"
    /\ stacks[i].siteDomain = <<"www.example.com">>

\* C2: for every production config the certificate domains and the
\* distribution domain names are each exactly {siteDomain, domainName}, two
\* entries, and the finished stack has exactly two DNS records: one for
\* siteDomain and one for the apex domainName.
C2_ProdCoversApex ==
  \A i \in Stacks :
    PropsOf(i).isProd =>
      LET st == stacks[i]
          both == {st.siteDomain[1], PropsOf(i).domainName}
      IN /\ st.certificate # Undefined =>
              /\ CertificateDomains(st.certificate[1]) = both
              /\ Len(st.certificate[1].subjectAlternativeNames) = 1
              /\ Cardinality(both) = 2
         /\ st.siteDistribution # Undefined =>
              /\ Range(st.siteDistribution[1].domainNames) = both
              /\ Len(st.siteDistribution[1].domainNames) = 2
         /\ Len(st.records) <= 2
         /\ Complete(i) =>
              /\ Len(st.records) = 2
              /\ RecordNameOf(st.records[1]) = st.siteDomain[1]
              /\ RecordNameOf(st.records[2]) = PropsOf(i).domainName

C2_Witness ==
  \E i \in Stacks :
    /\ PropsOf(i).isProd
    /\ PropsOf(i).domainName = "example.com"
    /\ Complete(i)
    /\ RecordNames(i) = {"www.example.com", "example.com"}

\* C3: for every valid non-production config with subdomain s, siteDomain is
\* s + "." + domainName, and the certificate domains, the distribution domain
\* names and the DNS records contain siteDomain only, never the apex; the
\* finished stack has one DNS record.
C3_NonProdExcludesApex ==
  \A i \in Stacks :
    (ValidNonProd(PropsOf(i)) /\ stacks[i].siteDomain # Undefined) =>
      LET st == stacks[i]
          apex == PropsOf(i).domainName
          site == PropsOf(i).siteSubDomain[1] \o "." \o apex
      IN /\ st.siteDomain = <<site>>
         /\ site # apex
         /\ st.certificate # Undefined =>
              CertificateDomains(st.certificate[1]) = {site}
         /\ st.siteDistribution # Undefined =>
              st.siteDistribution[1].domainNames = <<site>>
         /\ RecordNames(i) \subseteq {site}
         /\ Complete(i) => Len(st.records) = 1

C3_Witness ==
  \E i \in Stacks :
    /\ PropsOf(i) = [domainName |-> "example.com", isProd |-> FALSE,
                     siteSubDomain |-> <<"dev">>, account |-> Undefined]
    /\ Complete(i)
    /\ RecordNames(i) = {"dev.example.com"}

\* C4: a non-production config whose siteSubDomain is empty or missing fails
\* with a ConfigurationError before anything is derived or created.
C4_InvalidNonProdRejected ==
  \A i \in Stacks :
    InvalidNonProd(PropsOf(i)) =>
      /\ stacks[i].siteDomain = Undefined
      /\ stacks[i].zone = Undefined
      /\ \A k \in 1..Len(calls) : calls[k][1] # i
      /\ stacks[i].constructed =>
           /\ thrown # Undefined
           /\ thrown[1].cause = "ConfigurationError"

\* C5: with the domain name empty or absent from the environment, the run
\* fails with a ConfigurationError before any remote resource call, for the
\* production and for the development target.
C5_MissingDomainNameRejected ==
  OrEmpty(environ.DOMAIN_NAME) = "" =>
    /\ calls = << >>
    /\ \A i \in Stacks : stacks[i].zone = Undefined
    /\ (\E i \in Stacks : stacks[i].siteDomain # Undefined) =>
         /\ thrown # Undefined
         /\ thrown[1].cause = "ConfigurationError"

\* C6: in every stack the bucket name, the certificate's primary domain, a
\* distribution domain name and the name of the site DNS record are all the
\* derived siteDomain.
C6_SiteDomainUsedIdentically ==
  \A i \in Stacks :
    LET st == stacks[i] IN
      /\ st.siteBucket # Undefined =>
           st.siteBucket[1].bucketName = st.siteDomain[1]
      /\ st.certificate # Undefined =>
           st.certificate[1].domainName = st.siteDomain[1]
      /\ st.siteDistribution # Undefined =>
           st.siteDistribution[1].domainNames[1] = st.siteDomain[1]
      /\ st.records # << >> =>
           /\ st.records[1].id = "SiteAliasRecord"
           /\ st.records[1].recordName = st.siteDomain
      /\ Complete(i) =>
           Cardinality({st.siteBucket[1].bucketName,
                        st.certificate[1].domainName,
                        st.siteDistribution[1].domainNames[1],
                        st.records[1].recordName[1]}) = 1

C6_Witness ==
  \E i \in Stacks :
    /\ Complete(i)
    /\ stacks[i].siteDomain = <<"dev.example.com">>
    /\ stacks[i].siteBucket[1].bucketName = "dev.example.com"
    /\ stacks[i].records[1].recordName = <<"dev.example.com">>
\* the three props the derivation may read agree
SameConfig(p, q) ==
  /\ p.domainName = q.domainName
  /\ p.isProd = q.isProd
  /\ p.siteSubDomain = q.siteSubDomain

Prerequisites(construct) ==
  CASE construct = "SiteCertificate" -> {"Zone"}
    [] construct = "SiteBucket/Policy" -> {"cloudfront-OAI", "SiteBucket"}
    [] construct = "SiteDistribution" ->
         {"SiteBucket", "cloudfront-OAI", "SiteCertificate"}
    [] construct \in {"SiteAliasRecord", "SiteAliasRecordApex"} ->
         {"SiteDistribution"}
    [] construct \in {"Site", "Bucket", "DistributionDomainName"} ->
         {"SiteBucket", "SiteDistribution"}
    [] OTHER -> {}

\* the construct exists in stack i
Present(i, construct) ==
  LET st == stacks[i] IN
  CASE construct = "Zone" -> st.zone # Undefined
    [] construct = "cloudfront-OAI" -> st.cloudfrontOAI # Undefined
    [] construct = "SiteBucket" -> st.siteBucket # Undefined
    [] construct = "SiteBucket/Policy" -> st.bucketPolicy # << >>
    [] construct = "SiteCertificate" -> st.certificate # Undefined
    [] construct = "SiteDistribution" -> st.siteDistribution # Undefined
    [] construct \in {"SiteAliasRecord", "SiteAliasRecordApex"} ->
         \E k \in 1..Len(st.records) : st.records[k].id = construct
    [] construct \in {"Site", "Bucket", "DistributionDomainName"} ->
         \E k \in 1..Len(st.outputs) : st.outputs[k].id = construct
    [] OTHER -> FALSE

\* C8: the certificate is requested only after the zone lookup; the bucket
\* policy grant only after the access identity and the bucket; the
\* distribution only after the bucket, the access identity and the
\* certificate; every DNS record only after the distribution; the outputs
\* only after the bucket and the distribution.
C8_DependencyOrder ==
  \A k \in 1..Len(calls) :
    \A pre \in Prerequisites(calls[k][2]) :
      /\ \E m \in 1..(k - 1) : calls[m] = <<calls[k][1], pre>>
      /\ Present(calls[k][1], pre)

C8_Witness ==
  \E i \in Stacks :
    /\ PropsOf(i).isProd
    /\ Complete(i)
    /\ \E k \in 1..Len(calls) : calls[k] = <<i, "SiteAliasRecordApex">>
    /\ \E k \in 1..Len(calls) : calls[k] = <<i, "DistributionDomainName">>

\* C9: a failing step ends the run: it is the last call of the run and is
\* tried once, the failure is reported as thrown, the stack under
\* construction has no outputs and no later stack is built, and everything
\* created before the failure is still there; outputs belong only to stacks
\* all of whose steps succeeded.
C9_AbortOnFirstFailure ==
  /\ \A k, m \in 1..Len(calls) : calls[k] = calls[m] => k = m
  /\ thrown = Undefined =>
       /\ reported = Undefined
       /\ pc # "aborted"
       /\ \A k \in 1..Len(calls) : Present(calls[k][1], calls[k][2])
  /\ thrown # Undefined =>
       /\ pc = "aborted"
       /\ reported = thrown
       /\ thrown[1].stack = program[cur].id
       /\ calls[Len(calls)] = <<cur, thrown[1].construct>>
       /\ ~Present(cur, thrown[1].construct)
       /\ \A k \in 1..(Len(calls) - 1) : Present(calls[k][1], calls[k][2])
       /\ stacks[cur].outputs = << >>
       /\ \A i \in Stacks : i > cur => stacks[i] = NoStack
  /\ \A i \in Stacks :
       Complete(i) =>
         /\ Len(stacks[i].outputs) = 3
         /\ \A c \in {"Zone", "cloudfront-OAI", "SiteBucket",
                      "SiteBucket/Policy", "SiteCertificate",
                      "SiteDistribution", "SiteAliasRecord"} : Present(i, c)
         /\ thrown # Undefined => thrown[1].stack # stacks[i].id

C9_Witness ==
  /\ thrown # Undefined
  /\ thrown[1].construct = "SiteDistribution"
  /\ cur = 2
  /\ Complete(1)
  /\ stacks[2].siteBucket # Undefined
  /\ stacks[2].certificate # Undefined
  /\ stacks[2].siteDistribution = Undefined

\* the resource names of stacks i and j are all different
NoCollision(i, j) ==
  LET a == stacks[i]
      b == stacks[j]
  IN /\ a.siteDomain # b.siteDomain
     /\ a.siteBucket[1].bucketName # b.siteBucket[1].bucketName
     /\ CertificateDomains(a.certificate[1]) \cap
          CertificateDomains(b.certificate[1]) = {}
     /\ Range(a.siteDistribution[1].domainNames) \cap
          Range(b.siteDistribution[1].domainNames) = {}
     /\ RecordNames(i) \cap RecordNames(j) = {}

\* C10: a production and a non-production stack on the same domainName have
\* different bucket names and disjoint certificate, distribution and DNS
\* record names exactly when the non-production subdomain is not "www"; so
\* the production target and the "dev" target never collide.
C10_ProdAndNonProdDisjoint ==
  \A i, j \in Stacks :
    (/\ PropsOf(i).isProd /\ ~PropsOf(j).isProd
     /\ PropsOf(i).domainName = PropsOf(j).domainName
     /\ Complete(i) /\ Complete(j)) =>
      /\ NoCollision(i, j) <=> PropsOf(j).siteSubDomain # <<"www">>
      /\ PropsOf(j).siteSubDomain = <<"dev">> => NoCollision(i, j)

C10_Witness ==
  \E i, j \in Stacks :
    /\ PropsOf(i).isProd /\ ~PropsOf(j).isProd
    /\ PropsOf(i).domainName = "example.com"
    /\ PropsOf(j).domainName = "example.com"
    /\ PropsOf(j).siteSubDomain = <<"dev">>
    /\ Complete(i) /\ Complete(j)
    /\ stacks[i].siteBucket[1].bucketName = "www.example.com"
    /\ stacks[j].siteBucket[1].bucketName = "dev.example.com"

====
